---- MODULE Spec2Model ----
(***************************************************************************)
(* Model of final_project_backend/src/lib.rs: a canister that keeps        *)
(* proposals in PROPOSAL_MAP (a StableBTreeMap behind a RefCell) and        *)
(* exposes get_proposal, get_proposal_count, create_proposal,               *)
(* edit_proposal, end_proposal and vote.                                    *)
(*                                                                         *)
(* Each canister message is one atomic step.  A Rust panic inside a message *)
(* is a trap: the caller gets a reject instead of a typed reply and the     *)
(* state of the canister is what it was before the message.                 *)
(*                                                                         *)
(* Descriptions are drawn from texts whose encoded record fits in           *)
(* MAX_VALUE_SIZE; the counters stay far below 2^32.                        *)
(***************************************************************************)
EXTENDS Integers, Sequences, FiniteSets, TLC

VARIABLES PROPOSAL_MAP, before, call, ret

vars == <<PROPOSAL_MAP, before, call, ret>>

\* ------------------------------------------------------------------ bounds
MaxKey == 2
NumPrincipals == 2

Keys == 1..MaxKey
Principals == 1..NumPrincipals
Descriptions == {"Upgrade v2", "v2 final"}
Choice == {"Approve", "Reject", "Pass"}

\* ------------------------------------------------------------ Option<T>
None == <<>>
Some(x) == <<x>>
IsSome(o) == o # None
Unwrap(o) == o[1]

\* ------------------------------------------------------------- data types
CreateProposal(description, is_active) ==
    [description |-> description, is_active |-> is_active]

\* replies: tag is "Reply" for a value, "Ok" or a VoteError for a Result,
\* "Trap" for a panic; val carries the Option<Proposal> or the count
Reply(v) == [tag |-> "Reply", val |-> v]
Ok == [tag |-> "Ok", val |-> None]
Err(e) == [tag |-> e, val |-> None]
Trap == [tag |-> "Trap", val |-> None]

\* what a handler leaves behind: its reply and the store
Outcome(r, map) == [ret |-> r, map |-> map]

\* a panic: the message is rejected and the store is as before the message
Panic(map) == Outcome(Trap, map)

\* ------------------------------------------------------------- the store
get(map, key) == map[key]

insert_forgets_prev(map, key, value) ==
    [prev |-> None, map |-> [map EXCEPT ![key] = Some(value)]]

insert(map, key, value) ==
    [prev |-> map[key], map |-> [map EXCEPT ![key] = Some(value)]]

len(map) == Cardinality({k \in Keys : IsSome(map[k])})

contains(v, x) == \E i \in 1..Len(v) : v[i] = x

\* ---------------------------------------------------- RefCell borrow flag
\* 0: not borrowed, n > 0: n shared borrows, -1: mutably borrowed
UNUSED == 0
WRITING == 0 - 1

borrow_panics(flag) == flag < UNUSED
borrow(flag) == flag + 1
borrow_mut_panics(flag) == flag # UNUSED
borrow_mut(flag) == WRITING

\* ------------------------------------------------------------- handlers
get_proposal(map, key) ==
    IF borrow_panics(UNUSED) THEN Panic(map)
    ELSE Outcome(Reply(get(map, key)), map)

get_proposal_count_active(map) ==
    IF borrow_panics(UNUSED) THEN Panic(map)
    ELSE Outcome(Reply(Some(Cardinality({k \in Keys :
                     IsSome(map[k]) /\ Unwrap(map[k]).is_active}))), map)

get_proposal_count(map) ==
    IF borrow_panics(UNUSED) THEN Panic(map)
    ELSE Outcome(Reply(Some(len(map))), map)

\* the record create_proposal builds
NewProposal_voted_twice(proposal, caller) ==
    [description |-> proposal.description,
     approve |-> 0,
     reject |-> 0,
     pass |-> 0,
     is_active |-> proposal.is_active,
     voted |-> <<caller, caller>>,
     owner |-> caller]

NewProposal_approved(proposal, caller) ==
    [description |-> proposal.description,
     approve |-> 1,
     reject |-> 0,
     pass |-> 0,
     is_active |-> proposal.is_active,
     voted |-> <<>>,
     owner |-> caller]

NewProposal(proposal, caller) ==
    [description |-> proposal.description,
     approve |-> 0,
     reject |-> 0,
     pass |-> 0,
     is_active |-> proposal.is_active,
     voted |-> <<>>,
     owner |-> caller]

create_proposal_first_key(map, key, proposal, caller) ==
    IF borrow_mut_panics(UNUSED) THEN Panic(map)
    ELSE LET w == insert(map, 1, NewProposal(proposal, caller))
         IN  Outcome(Reply(w.prev), w.map)

create_proposal_keeps_existing(map, key, proposal, caller) ==
    IF borrow_mut_panics(UNUSED) THEN Panic(map)
    ELSE IF IsSome(get(map, key)) THEN Outcome(Reply(get(map, key)), map)
         ELSE LET w == insert(map, key, NewProposal(proposal, caller))
              IN  Outcome(Reply(w.prev), w.map)

create_proposal(map, key, proposal, caller) ==
    IF borrow_mut_panics(UNUSED) THEN Panic(map)
    ELSE LET w == insert(map, key, NewProposal(proposal, caller))
         IN  Outcome(Reply(w.prev), w.map)

\* the record edit_proposal writes back
EditedProposal(old_proposal, proposal) ==
    [description |-> proposal.description,
     approve |-> old_proposal.approve,
     reject |-> old_proposal.reject,
     pass |-> old_proposal.pass,
     is_active |-> proposal.is_active,
     voted |-> old_proposal.voted,
     owner |-> old_proposal.owner]

\* the write-back of edit_proposal (97-111), end_proposal (127-130) and vote
\* (152-155): p.borrow_mut().insert(..) inside the body of the if-let.  The
\* Ref / RefMut temporary of the if-let scrutinee is dropped only at the end
\* of the if-let, so the borrow flag is still held when borrow_mut is called
write_back_unchecked(held, map, key, value) ==
    LET w == insert(map, key, value)
    IN  IF IsSome(w.prev) THEN Outcome(Ok, w.map)
        ELSE Outcome(Err("UpdateError"), w.map)

write_back_try_borrow(held, map, key, value) ==
    IF borrow_mut_panics(held) THEN Outcome(Err("UpdateError"), map)
    ELSE LET w == insert(map, key, value)
         IN  IF IsSome(w.prev) THEN Outcome(Ok, w.map)
             ELSE Outcome(Err("UpdateError"), w.map)

write_back(held, map, key, value) ==
    IF borrow_mut_panics(held) THEN Panic(map)
    ELSE LET w == insert(map, key, value)
         IN  IF IsSome(w.prev) THEN Outcome(Ok, w.map)
             ELSE Outcome(Err("UpdateError"), w.map)

edit_proposal_any_caller(map, key, proposal, caller) ==
    IF borrow_panics(UNUSED) THEN Panic(map)
    ELSE LET held == borrow(UNUSED)
             found == get(map, key)
         IN  IF IsSome(found)
             THEN write_back(held, map, key,
                             EditedProposal(Unwrap(found), proposal))
             ELSE Outcome(Err("NoSuchProposal"), map)

edit_proposal(map, key, proposal, caller) ==
    IF borrow_panics(UNUSED) THEN Panic(map)
    ELSE LET held == borrow(UNUSED)
             found == get(map, key)
         IN  IF IsSome(found)
             THEN LET old_proposal == Unwrap(found)
                  IN  IF old_proposal.owner = caller
                      THEN write_back(held, map, key,
                                      EditedProposal(old_proposal, proposal))
                      ELSE Outcome(Err("AccessRejected"), map)
             ELSE Outcome(Err("NoSuchProposal"), map)

end_proposal_swapped_errors(map, key, caller) ==
    IF borrow_mut_panics(UNUSED) THEN Panic(map)
    ELSE LET held == borrow_mut(UNUSED)
             found == get(map, key)
         IN  IF IsSome(found)
             THEN LET old_proposal == Unwrap(found)
                  IN  IF old_proposal.owner = caller
                      THEN write_back(held, map, key,
                                      [old_proposal EXCEPT !.is_active = FALSE])
                      ELSE Outcome(Err("NoSuchProposal"), map)
             ELSE Outcome(Err("AccessRejected"), map)

end_proposal(map, key, caller) ==
    IF borrow_mut_panics(UNUSED) THEN Panic(map)
    ELSE LET held == borrow_mut(UNUSED)
             found == get(map, key)
         IN  IF IsSome(found)
             THEN LET old_proposal == Unwrap(found)
                  IN  IF old_proposal.owner = caller
                      THEN write_back(held, map, key,
                                      [old_proposal EXCEPT !.is_active = FALSE])
                      ELSE Outcome(Err("AccessRejected"), map)
             ELSE Outcome(Err("NoSuchProposal"), map)

\* the match on choice and the push of the caller
Counted(old_proposal, choice, caller) ==
    LET bumped == CASE choice = "Approve" -> [old_proposal EXCEPT !.approve = @ + 1]
                    [] choice = "Reject"  -> [old_proposal EXCEPT !.reject = @ + 1]
                    [] choice = "Pass"    -> [old_proposal EXCEPT !.pass = @ + 1]
    IN  [bumped EXCEPT !.voted = Append(@, caller)]

vote_ignores_is_active(map, key, choice, caller) ==
    IF borrow_mut_panics(UNUSED) THEN Panic(map)
    ELSE LET held == borrow_mut(UNUSED)
             found == get(map, key)
         IN  IF IsSome(found)
             THEN LET old_proposal == Unwrap(found)
                  IN  IF ~contains(old_proposal.voted, caller)
                      THEN write_back(held, map, key,
                                      Counted(old_proposal, choice, caller))
                      ELSE Outcome(Err("AlreadyVoted"), map)
             ELSE Outcome(Err("NoSuchProposal"), map)

vote_swapped_errors(map, key, choice, caller) ==
    IF borrow_mut_panics(UNUSED) THEN Panic(map)
    ELSE LET held == borrow_mut(UNUSED)
             found == get(map, key)
         IN  IF IsSome(found)
             THEN LET old_proposal == Unwrap(found)
                  IN  IF old_proposal.is_active
                      THEN IF ~contains(old_proposal.voted, caller)
                           THEN write_back(held, map, key,
                                           Counted(old_proposal, choice, caller))
                           ELSE Outcome(Err("ProposalIsNotActive"), map)
                      ELSE Outcome(Err("AlreadyVoted"), map)
             ELSE Outcome(Err("NoSuchProposal"), map)

vote(map, key, choice, caller) ==
    IF borrow_mut_panics(UNUSED) THEN Panic(map)
    ELSE LET held == borrow_mut(UNUSED)
             found == get(map, key)
         IN  IF IsSome(found)
             THEN LET old_proposal == Unwrap(found)
                  IN  IF old_proposal.is_active
                      THEN IF ~contains(old_proposal.voted, caller)
                           THEN write_back(held, map, key,
                                           Counted(old_proposal, choice, caller))
                           ELSE Outcome(Err("AlreadyVoted"), map)
                      ELSE Outcome(Err("ProposalIsNotActive"), map)
             ELSE Outcome(Err("NoSuchProposal"), map)

\* ------------------------------------------------------------ the messages
NoCaller == 0
NoText == ""
NoChoice == "-"

Call(op, key, caller, description, is_active, choice) ==
    [op |-> op, key |-> key, caller |-> caller, description |-> description,
     is_active |-> is_active, choice |-> choice]

\* one message: the handler's outcome becomes the new store and the reply
Deliver(c, out) ==
    /\ before' = PROPOSAL_MAP
    /\ PROPOSAL_MAP' = out.map
    /\ call' = c
    /\ ret' = out.ret

Init ==
    /\ PROPOSAL_MAP = [k \in Keys |-> None]
    /\ before = [k \in Keys |-> None]
    /\ call = Call("init", 0, NoCaller, NoText, FALSE, NoChoice)
    /\ ret = Reply(None)

CallGetProposal ==
    \E key \in Keys :
        Deliver(Call("get_proposal", key, NoCaller, NoText, FALSE, NoChoice),
                get_proposal(PROPOSAL_MAP, key))

CallGetProposalCount ==
    Deliver(Call("get_proposal_count", 0, NoCaller, NoText, FALSE, NoChoice),
            get_proposal_count(PROPOSAL_MAP))

CallCreateProposal ==
    \E key \in Keys, caller \in Principals, d \in Descriptions, a \in BOOLEAN :
        Deliver(Call("create_proposal", key, caller, d, a, NoChoice),
                create_proposal(PROPOSAL_MAP, key, CreateProposal(d, a), caller))

CallEditProposal ==
    \E key \in Keys, caller \in Principals, d \in Descriptions, a \in BOOLEAN :
        Deliver(Call("edit_proposal", key, caller, d, a, NoChoice),
                edit_proposal(PROPOSAL_MAP, key, CreateProposal(d, a), caller))

CallEndProposal ==
    \E key \in Keys, caller \in Principals :
        Deliver(Call("end_proposal", key, caller, NoText, FALSE, NoChoice),
                end_proposal(PROPOSAL_MAP, key, caller))

CallVote ==
    \E key \in Keys, caller \in Principals, choice \in Choice :
        Deliver(Call("vote", key, caller, NoText, FALSE, choice),
                vote(PROPOSAL_MAP, key, choice, caller))

Next ==
    \/ CallGetProposal
    \/ CallGetProposalCount
    \/ CallCreateProposal
    \/ CallEditProposal
    \/ CallEndProposal
    \/ CallVote

Spec == Init /\ [][Next]_vars

\* ------------------------------------------------------------- properties
\* the record stored at the key of the last message, before and after it
Old == Unwrap(before[call.key])
New == Unwrap(PROPOSAL_MAP[call.key])
Existed == IsSome(before[call.key])

Tally(p) == p.approve + p.reject + p.pass

\* C1: in every reachable state every stored proposal has
\* approve + reject + pass equal to the number of entries of voted.
C1_TallyIsVotedCount ==
    \A k \in Keys :
        IsSome(PROPOSAL_MAP[k]) =>
            Tally(Unwrap(PROPOSAL_MAP[k])) = Len(Unwrap(PROPOSAL_MAP[k]).voted)

C1_Witness ==
    /\ call.op = "vote"
    /\ Existed
    /\ Old.is_active
    /\ IsSome(PROPOSAL_MAP[call.key])

\* C2: voting twice with the same caller on the same proposal: when a caller
\* has voted on the active proposal at key k, the next vote on k by that
\* caller, for any choice, is answered AlreadyVoted and leaves approve,
\* reject, pass and voted of the proposal as they were.
C2_SecondVoteAlreadyVoted ==
    [][(/\ call.op = "vote"
        /\ IsSome(PROPOSAL_MAP[call.key])
        /\ Unwrap(PROPOSAL_MAP[call.key]).is_active
        /\ call'.op = "vote"
        /\ call'.key = call.key
        /\ call'.caller = call.caller)
       => (/\ ret'.tag = "AlreadyVoted"
           /\ PROPOSAL_MAP'[call.key] = PROPOSAL_MAP[call.key])]_vars

\* C3: a vote by any caller on a stored proposal whose is_active is false is
\* answered ProposalIsNotActive and leaves the stored record unchanged.
C3_VoteOnInactive ==
    (call.op = "vote" /\ Existed /\ ~Old.is_active)
        => (ret.tag = "ProposalIsNotActive"
            /\ PROPOSAL_MAP[call.key] = before[call.key])

C3_Witness ==
    /\ call.op = "vote"
    /\ Existed
    /\ ~Old.is_active
    /\ ret.tag = "ProposalIsNotActive"

\* C4: edit_proposal and end_proposal on an existing proposal by a caller
\* other than its owner are answered AccessRejected and leave the stored
\* record unchanged in every field.
C4_NonOwnerRejected ==
    (call.op \in {"edit_proposal", "end_proposal"} /\ Existed
     /\ Old.owner # call.caller)
        => (ret.tag = "AccessRejected"
            /\ PROPOSAL_MAP[call.key] = before[call.key])

C4_Witness ==
    /\ call.op = "edit_proposal"
    /\ Existed
    /\ Old.owner # call.caller
    /\ Old.is_active # call.is_active
    /\ Old.description # call.description
    /\ ret.tag = "AccessRejected"

\* C5: immediately after create_proposal(k, description, is_active) by caller
\* c, get_proposal(k) returns a record with approve = reject = pass = 0,
\* voted empty, owner = c and the description and is_active of the call.
C5_FreshAfterCreate ==
    call.op = "create_proposal"
        => get_proposal(PROPOSAL_MAP, call.key).ret =
               Reply(Some([description |-> call.description,
                           approve |-> 0,
                           reject |-> 0,
                           pass |-> 0,
                           is_active |-> call.is_active,
                           voted |-> <<>>,
                           owner |-> call.caller]))

C5_Witness ==
    /\ call.op = "create_proposal"
    /\ Existed
    /\ Old.owner # call.caller
    /\ Old.description # call.description
    /\ ret = Reply(before[call.key])

\* C6: the owner of a proposal is immutable after creation: once a record
\* with owner o is stored at key k, no later message changes the owner of the
\* record at k.
C6_OwnerImmutable ==
    [][\A k \in Keys :
          IsSome(PROPOSAL_MAP[k])
              => (IsSome(PROPOSAL_MAP'[k])
                  /\ Unwrap(PROPOSAL_MAP'[k]).owner = Unwrap(PROPOSAL_MAP[k]).owner)]_vars

C8_VoteCounted ==
    (call.op = "vote" /\ Existed /\ Old.is_active
     /\ ~contains(Old.voted, call.caller))
        => /\ ret.tag = "Ok"
           /\ IsSome(PROPOSAL_MAP[call.key])
           /\ New.approve = Old.approve + (IF call.choice = "Approve" THEN 1 ELSE 0)
           /\ New.reject = Old.reject + (IF call.choice = "Reject" THEN 1 ELSE 0)
           /\ New.pass = Old.pass + (IF call.choice = "Pass" THEN 1 ELSE 0)
           /\ New.voted = Append(Old.voted, call.caller)
           /\ New.description = Old.description
           /\ New.is_active = Old.is_active
           /\ New.owner = Old.owner

\* C9: edit_proposal by the owner of an existing proposal returns success,
\* replaces description and is_active by the given values and leaves approve,
\* reject, pass, voted and owner unchanged.
C9_OwnerEdit ==
    (call.op = "edit_proposal" /\ Existed /\ Old.owner = call.caller)
        => /\ ret.tag = "Ok"
           /\ PROPOSAL_MAP[call.key] =
                  Some([Old EXCEPT !.description = call.description,
                                   !.is_active = call.is_active])

\* C10: end_proposal by the owner of an existing proposal returns success and
\* sets is_active to false whatever it was (so a repeated call succeeds and
\* changes nothing), leaving every other field untouched.
C10_OwnerEnd ==
    (call.op = "end_proposal" /\ Existed /\ Old.owner = call.caller)
        => /\ ret.tag = "Ok"
           /\ PROPOSAL_MAP[call.key] = Some([Old EXCEPT !.is_active = FALSE])

Updates == {"create_proposal", "edit_proposal", "end_proposal", "vote"}

\* C11: once is_active of the proposal at key k is false, the only step that
\* makes it true again is an edit_proposal on k by the owner of that record.
C11_OnlyOwnerEditReactivates ==
    [][\A k \in Keys :
          (/\ IsSome(PROPOSAL_MAP[k])
           /\ ~Unwrap(PROPOSAL_MAP[k]).is_active
           /\ IsSome(PROPOSAL_MAP'[k])
           /\ Unwrap(PROPOSAL_MAP'[k]).is_active)
          => (/\ call'.op = "edit_proposal"
              /\ call'.key = k
              /\ call'.caller = Unwrap(PROPOSAL_MAP[k]).owner)]_vars

C14_CreateUpserts ==
    call.op = "create_proposal"
        => /\ ret.tag = "Reply"
           /\ ret.val = before[call.key]
           /\ IsSome(PROPOSAL_MAP[call.key])
           /\ New.owner = call.caller
           /\ New.description = call.description
           /\ New.is_active = call.is_active
           /\ Tally(New) = 0
           /\ New.voted = <<>>

C14_Witness ==
    /\ call.op = "create_proposal"
    /\ Existed
    /\ Old.owner # call.caller
    /\ Old.is_active # call.is_active
    /\ ret.val = Some(Old)
    /\ New.owner = call.caller

\* C15: no operation is fatal: every call of create_proposal, edit_proposal,
\* end_proposal and vote completes with its typed result, success or a
\* VoteError, and never aborts.
C15_NoTrap ==
    call.op \in Updates => ret.tag # "Trap"

C17_ReactivationKeepsVoters ==
    (/\ call.op = "edit_proposal"
     /\ Existed
     /\ Old.owner = call.caller
     /\ ~Old.is_active
     /\ call.is_active)
        => /\ IsSome(PROPOSAL_MAP[call.key])
           /\ New.is_active
           /\ New.voted = Old.voted
           /\ New.approve = Old.approve
           /\ New.reject = Old.reject
           /\ New.pass = Old.pass
           /\ \A c \in Principals, choice \in Choice :
                  vote(PROPOSAL_MAP, call.key, choice, c).ret.tag =
                      IF contains(Old.voted, c) THEN "AlreadyVoted" ELSE "Ok"

\* C18: get_proposal_count grows by exactly 1 in a create_proposal on an
\* absent key and is unchanged by every other step (a create_proposal on an
\* existing key, edit_proposal, end_proposal, vote, get_proposal,
\* get_proposal_count), so it never decreases and counts the distinct keys
\* create_proposal was called on.
C18_CountCountsCreatedKeys ==
    [][get_proposal_count(PROPOSAL_MAP').ret.val =
           Some(Unwrap(get_proposal_count(PROPOSAL_MAP).ret.val)
                + (IF call'.op = "create_proposal"
                      /\ ~IsSome(PROPOSAL_MAP[call'.key])
                   THEN 1 ELSE 0))]_vars

C18_Witness ==
    /\ call.op = "create_proposal"
    /\ Existed
    /\ ~Old.is_active
    /\ New.is_active
    /\ get_proposal_count(PROPOSAL_MAP).ret.val = Some(1)

\* C19: edit_proposal, end_proposal and vote on a key with no stored record
\* are answered NoSuchProposal, for every caller and argument, and leave the
\* whole store unchanged, the key still absent.
C19_AbsentKey ==
    (call.op \in {"edit_proposal", "end_proposal", "vote"} /\ ~Existed)
        => (ret.tag = "NoSuchProposal" /\ PROPOSAL_MAP = before)

C19_Witness ==
    /\ call.op = "end_proposal"
    /\ ~Existed
    /\ ret.tag = "NoSuchProposal"
    /\ \E k \in Keys : IsSome(PROPOSAL_MAP[k])
                       /\ Unwrap(PROPOSAL_MAP[k]).owner = call.caller

\* C20: after a create_proposal, edit_proposal, end_proposal or vote on key
\* k, successful or failed, every key other than k holds what it held before.
C20_OtherKeysUntouched ==
    call.op \in Updates
        => \A j \in Keys \ {call.key} : PROPOSAL_MAP[j] = before[j]

C20_Witness ==
    /\ call.op = "create_proposal"
    /\ ~Existed
    /\ \E j \in Keys \ {call.key} : IsSome(PROPOSAL_MAP[j])

====
